---- MODULE Spec2Model ----
(***************************************************************************)
(* Model of tcconfig's TcShapingRuleParser                                 *)
(* (src/tcconfig/parser/shaping_rule.py): construction with the IFB        *)
(* lookup, get_tc_parameter, the filter-key construction and the           *)
(* qdisc/class parameter join.                                             *)
(*                                                                         *)
(* Python dicts are functions with a finite set of string keys; a missing  *)
(* key is a key outside the DOMAIN.  dict.get of a missing key is None.    *)
(***************************************************************************)
EXTENDS Integers, Sequences, FiniteSets, TLC

VARIABLES
    ip_version,            \* self.__ip_version
    root_query,            \* what "tc filter show dev <device> root" meets
    mangle_table,          \* what self.__iptables_ctrl.parse() yields, in order
    tc_output,             \* device -> parsed tc show records (qdisc/class/filter)
    ifb_device,            \* self.__ifb_device
    pc,                    \* "new", "ready", "loop", "returned", "raised"
    direction,             \* direction whose __get_shaping_rule call is running
    class_param_list,      \* locals of the running __get_shaping_rule call
    filter_param_list,
    qdisc_param_list,
    idx,                   \* number of filter records the for loop has consumed
    key_item_list,         \* key_item_list of the last __get_filter_key call
    filter_key,            \* filter_key of the last loop iteration
    shaping_rule,          \* shaping_rule of the last loop iteration
    shaping_rule_mapping,  \* shaping_rule_mapping of the running call
    outgoing_rule,         \* value already computed for TrafficDirection.OUTGOING
    result,                \* return value of get_tc_parameter
    exception              \* the exception that left the parser, if any

vars == <<ip_version, root_query, mangle_table, tc_output, ifb_device, pc,
          direction, class_param_list, filter_param_list, qdisc_param_list,
          idx, key_item_list, filter_key, shaping_rule, shaping_rule_mapping,
          outgoing_rule, result, exception>>

(***************************************************************************)
(* Bounds of the model.                                                    *)
(***************************************************************************)
MaxQdisc  == 2     \* longest qdisc record list
MaxClass  == 2     \* longest class record list
MaxFilter == 2     \* longest filter record list
MaxMangle == 2     \* longest mangle table

(***************************************************************************)
(* Python values and dict operations.                                      *)
(***************************************************************************)
None == "<None>"

EmptyDict == << >>

Get(d, k) == IF k \in DOMAIN d THEN d[k] ELSE None

Del(d, k) == [x \in DOMAIN d \ {k} |-> d[x]]

\* dict.update: the argument's entries overwrite the receiver's
Update(d, e) == e @@ d

\* typepy.is_null_string / typepy.is_not_null_string on None or a string
is_null_string(v) == v = None \/ v = ""

is_not_null_string(v) == v # None /\ v # ""

(***************************************************************************)
(* Names from tcconfig._const (Tc.Param, TrafficDirection).                *)
(***************************************************************************)
HANDLE      == "handle"
PARENT      == "parent"
CLASS_ID    == "classid"
FLOW_ID     == "flowid"
SRC_NETWORK == "src-network"
DST_NETWORK == "dst-network"
SRC_PORT    == "src-port"
DST_PORT    == "dst-port"
PROTOCOL    == "protocol"
OUTGOING    == "outgoing"
INCOMING    == "incoming"

\* tcconfig._common.is_anywhere_network
is_anywhere_network(network, version) ==
    \/ version = 4 /\ network = "0.0.0.0/0"
    \/ version = 6 /\ network = "::/0"

(***************************************************************************)
(* The environment the parser reads.                                       *)
(***************************************************************************)
Device    == "eth0"
IfbName   == "ifb0"
MarkIds   == {100, 101, 102}

RedirectText == "action mirred (Egress Redirect to device ifb0)"
PlainText    == "filter parent 1: protocol ip pref 1 u32"

\* outcome of the root filter query: the tool ran and printed a listing, the
\* device does not exist (tc exits non-zero, prints to stderr only), or the
\* tc binary is not installed
RootQueries ==
    { [kind |-> "ok",        returncode |-> 0, stdout |-> RedirectText],
      [kind |-> "ok",        returncode |-> 0, stdout |-> PlainText],
      [kind |-> "no_device", returncode |-> 1, stdout |-> ""],
      [kind |-> "no_tool",   returncode |-> 127, stdout |-> ""] }

SeqsUpTo(S, n) == UNION { [1..m -> S] : m \in 0..n }

\* record lists as TcQdiscParser / TcClassParser / TcFilterParser return them
QdiscRecords ==
    { [parent |-> "1:1", handle |-> "10:", delay |-> "100ms", limit |-> "10"],
      [parent |-> "1:1", handle |-> "20:", delay |-> "50ms"],
      [parent |-> "1:2", delay |-> "50ms"],
      [handle |-> "1:", limit |-> "5"] }

ClassRecords ==
    { [classid |-> "1:1", rate |-> "1Mbit", limit |-> "20"],
      [classid |-> "1:1", parent |-> "1:", rate |-> "2Mbit"],
      [classid |-> "1:2", rate |-> "3Mbit"] }

NetX == "192.0.2.0/24"
NetY == "198.51.100.0/24"

\* filters that differ in the identifiers they carry
JoinFilters ==
    { (DST_NETWORK :> NetX) @@ (FLOW_ID :> "1:1"),
      (DST_NETWORK :> NetX) @@ (CLASS_ID :> "1:2"),
      (DST_NETWORK :> NetX),
      (DST_NETWORK :> NetY) @@ (FLOW_ID :> "1:1") @@ (CLASS_ID :> "1:2") }

\* filters that differ in their direct-match fields
Opt(name, values) == {EmptyDict} \cup { name :> v : v \in values }

\* every combination of present fields, and the "any" networks of IPv4
KeyFilters ==
    { (FLOW_ID :> "1:1") @@ s @@ d @@ sp @@ dp @@ pr :
        s  \in Opt(SRC_NETWORK, {NetX}),
        d  \in Opt(DST_NETWORK, {NetY}),
        sp \in Opt(SRC_PORT, {80}),
        dp \in Opt(DST_PORT, {443}),
        pr \in Opt(PROTOCOL, {"ip"}) }
    \cup
    { (FLOW_ID :> "1:1") @@ s @@ d @@ pr :
        s  \in Opt(SRC_NETWORK, {"0.0.0.0/0", NetX}),
        d  \in Opt(DST_NETWORK, {"0.0.0.0/0"}),
        pr \in Opt(PROTOCOL, {"ip"}) }

\* filters that classify through a firewall mark
HandleFilters ==
    { (HANDLE :> "100") @@ (CLASS_ID :> "1:1"),
      (HANDLE :> "101") @@ (CLASS_ID :> "1:1"),
      (HANDLE :> "102") @@ (FLOW_ID :> "1:1") }

MangleRules ==
    { [mark_id |-> 100, source |-> None, destination |-> NetX, protocol |-> "ip"],
      [mark_id |-> 100, source |-> "10.0.0.0/8", destination |-> NetY, protocol |-> "ip"],
      [mark_id |-> 100, source |-> None, destination |-> NetY, protocol |-> "tcp"],
      [mark_id |-> 101, source |-> None, destination |-> NetY, protocol |-> "ip"] }

TcOutput(q, c, f) == [qdisc |-> q, class |-> c, filter |-> f]

FixedQdisc == << [parent |-> "1:1", handle |-> "10:", delay |-> "100ms", limit |-> "10"],
                 [handle |-> "1:", limit |-> "5"] >>
FixedClass == << [classid |-> "1:1", rate |-> "1Mbit", limit |-> "20"] >>

\* what tc shows for the IFB device
IfbOutputs ==
    { TcOutput(<< [parent |-> "1:2", delay |-> "50ms"] >>, << >>,
               << (DST_NETWORK :> NetX) @@ (FLOW_ID :> "1:2") >>),
      TcOutput(FixedQdisc, FixedClass,
               << (HANDLE :> "102") @@ (FLOW_ID :> "1:1") >>) }

PlainQuery == [kind |-> "ok", returncode |-> 0, stdout |-> PlainText]

DefaultIfb == CHOOSE o \in IfbOutputs : Len(o.qdisc) = 1

\* one environment: IP version, root query outcome, mangle table, tc records
Input(v, r, m, dev, ifb) ==
    /\ ip_version = v
    /\ root_query = r
    /\ mangle_table = m
    /\ tc_output = (Device :> dev) @@ (IfbName :> ifb)

\* inputs that vary the records joined
JoinInputs ==
    \E q \in SeqsUpTo(QdiscRecords, MaxQdisc),
       c \in SeqsUpTo(ClassRecords, MaxClass),
       f \in SeqsUpTo(JoinFilters, MaxFilter) :
        Input(4, PlainQuery, << >>, TcOutput(q, c, f), DefaultIfb)

\* inputs that vary the direct-match fields and the IP version
KeyInputs ==
    \E v \in {4, 6}, f \in SeqsUpTo(KeyFilters, MaxFilter) :
        Input(v, PlainQuery, << >>, TcOutput(FixedQdisc, FixedClass, f), DefaultIfb)

\* inputs that vary the mangle table
MangleInputs ==
    \E m \in SeqsUpTo(MangleRules, MaxMangle),
       f \in SeqsUpTo(HandleFilters \cup {(DST_NETWORK :> NetX) @@ (FLOW_ID :> "1:1")},
                      MaxFilter) :
        Input(4, PlainQuery, m, TcOutput(FixedQdisc, FixedClass, f), DefaultIfb)

\* inputs that vary the root filter query and the IFB device's records
IfbInputs ==
    \E r \in RootQueries, ifb \in IfbOutputs,
       f \in SeqsUpTo(JoinFilters, MaxFilter) :
        Input(4, r, << >>, TcOutput(FixedQdisc, FixedClass, f), ifb)

Inputs == JoinInputs \/ KeyInputs \/ MangleInputs \/ IfbInputs

(***************************************************************************)
(* __get_ifb_from_device and its collaborators.                            *)
(***************************************************************************)
\* SubprocessRunner.run(): the exit status is returned, not raised; only a
\* command that cannot be found may raise, depending on the library version
RunMayRaise(query) == query.kind = "no_tool"

\* TcFilterParser.parse_incoming_device: the redirect target, or None
parse_incoming_device(text) == IF text = RedirectText THEN IfbName ELSE None

\* the value __get_ifb_from_device returns; the return code is not read
get_ifb_from_device(query) == parse_incoming_device(query.stdout)

\* run_tc_show: fails when the device does not exist or tc is unavailable
RunTcShowFails(query) == query.kind # "ok"

(***************************************************************************)
(* __get_filter_key                                                        *)
(***************************************************************************)
Item(name, text) == [name |-> name, text |-> text]

\* "<name>={}".format(value)
ItemText(item) == item.name \o "=" \o item.text

\* ", ".join(key_item_list)
RECURSIVE Join(_)
Join(items) ==
    IF Len(items) = 0 THEN ""
    ELSE IF Len(items) = 1 THEN ItemText(items[1])
    ELSE ItemText(items[1]) \o ", " \o Join(Tail(items))

\* lines 81-82: int(handle) for a handle that Integer(handle).validate()
\* accepts, the number whose decimal form the handle is
IntOf(handle) == CHOOSE n \in MarkIds : ToString(n) = handle

MatchingMarks(table, handle) == { i \in DOMAIN table : table[i].mark_id = handle }

\* a loop without the break of line 95 ends on the last matching rule
LastMatchingMark(table, handle) ==
    CHOOSE i \in MatchingMarks(table, handle) :
        \A j \in MatchingMarks(table, handle) : j <= i

\* lines 84-95: the for loop leaves at the first rule whose mark_id equals
\* the handle
FirstMatchingMark(table, handle) ==
    CHOOSE i \in MatchingMarks(table, handle) :
        \A j \in MatchingMarks(table, handle) : i <= j

\* lines 88-93
MangleKeyItems(mangle) ==
    << Item(DST_NETWORK, mangle.destination) >>
    \o (IF is_not_null_string(mangle.source)
        THEN << Item(SRC_NETWORK, mangle.source) >> ELSE << >>)
    \o << Item(PROTOCOL, mangle.protocol) >>

\* lines 99-120; a port the record carries is an integer, so
\* Integer(port).is_type() is the presence of the field
DirectKeyItems(filter_param, version) ==
    (IF /\ is_not_null_string(Get(filter_param, SRC_NETWORK))
        /\ ~is_anywhere_network(Get(filter_param, SRC_NETWORK), version)
     THEN << Item(SRC_NETWORK, filter_param[SRC_NETWORK]) >> ELSE << >>)
    \o (IF is_not_null_string(Get(filter_param, DST_NETWORK))
        THEN << Item(DST_NETWORK, filter_param[DST_NETWORK]) >> ELSE << >>)
    \o (IF SRC_PORT \in DOMAIN filter_param
        THEN << Item(SRC_PORT, ToString(filter_param[SRC_PORT])) >> ELSE << >>)
    \o (IF DST_PORT \in DOMAIN filter_param
        THEN << Item(DST_PORT, ToString(filter_param[DST_PORT])) >> ELSE << >>)
    \o (IF is_not_null_string(Get(filter_param, PROTOCOL))
        THEN << Item(PROTOCOL, filter_param[PROTOCOL]) >> ELSE << >>)

\* the exception the for/else clause raises: the message formats the loop
\* variable, which is the last rule of the table, or unbound when the table
\* is empty
MarkNotFound(table) ==
    IF Len(table) = 0
    THEN [type |-> "UnboundLocalError", message |-> "local variable 'mangle' referenced before assignment"]
    ELSE [type |-> "ValueError", message |-> "mangle mark not found: ", subject |-> table[Len(table)]]

NoException == [type |-> "none"]

\* the outcome of __get_filter_key: the items collected, or the exception
get_filter_key(filter_param, table, version) ==
    IF HANDLE \in DOMAIN filter_param
    THEN IF MatchingMarks(table, IntOf(filter_param[HANDLE])) = {}
         THEN [raised |-> MarkNotFound(table), items |-> << >>]
         ELSE [raised |-> NoException,
               items |-> MangleKeyItems(
                   table[FirstMatchingMark(table, IntOf(filter_param[HANDLE]))])]
    ELSE [raised |-> NoException, items |-> DirectKeyItems(filter_param, version)]

(***************************************************************************)
(* The parameter join of __get_shaping_rule.                               *)
(***************************************************************************)
\* __strip_qdisc_param
strip_qdisc_param(qdisc_param) == Del(Del(qdisc_param, PARENT), HANDLE)

\* lines 149-152: "not in" negated
QdiscSelected(qdisc_param, filter_param) ==
    Get(qdisc_param, PARENT) \in {Get(filter_param, FLOW_ID), Get(filter_param, CLASS_ID)}

\* lines 160-163
ClassSelected(class_param, filter_param) ==
    Get(class_param, CLASS_ID) \in {Get(filter_param, FLOW_ID), Get(filter_param, CLASS_ID)}

\* lines 145-154, the first n qdisc records scanned
RECURSIVE QdiscScan(_, _, _)
QdiscScan(filter_param, qdiscs, n) ==
    IF n = 0 THEN EmptyDict
    ELSE LET acc == QdiscScan(filter_param, qdiscs, n - 1)
         IN  IF QdiscSelected(qdiscs[n], filter_param)
             THEN Update(acc, strip_qdisc_param(qdiscs[n]))
             ELSE acc

\* lines 156-167, the first n class records scanned on top of acc0
RECURSIVE ClassScan(_, _, _, _)
ClassScan(filter_param, classes, n, acc0) ==
    IF n = 0 THEN acc0
    ELSE LET acc == ClassScan(filter_param, classes, n - 1, acc0)
         IN  IF ClassSelected(classes[n], filter_param)
             THEN Update(acc, Del(classes[n], CLASS_ID))
             ELSE acc

\* shaping_rule when the loop body reaches line 169
JoinParams(filter_param, qdiscs, classes) ==
    ClassScan(filter_param, classes, Len(classes),
              QdiscScan(filter_param, qdiscs, Len(qdiscs)))

\* a store that keeps the entry the mapping already has for the key
KeepFirstRule(mapping, key, rule) ==
    IF key \in DOMAIN mapping THEN mapping ELSE (key :> rule) @@ mapping

\* line 177: shaping_rule_mapping[filter_key] = shaping_rule
StoreRule(mapping, key, rule) == (key :> rule) @@ mapping

(***************************************************************************)
(* The state machine.                                                      *)
(***************************************************************************)
Init ==
    /\ Inputs
    /\ ifb_device = None
    /\ pc = "new"
    /\ direction = ""
    /\ class_param_list = << >>
    /\ filter_param_list = << >>
    /\ qdisc_param_list = << >>
    /\ idx = 0
    /\ key_item_list = << >>
    /\ filter_key = ""
    /\ shaping_rule = EmptyDict
    /\ shaping_rule_mapping = EmptyDict
    /\ outgoing_rule = EmptyDict
    /\ result = EmptyDict
    /\ exception = NoException

environment == <<ip_version, root_query, mangle_table, tc_output>>

call_locals == <<class_param_list, filter_param_list, qdisc_param_list, idx,
                 key_item_list, filter_key, shaping_rule, shaping_rule_mapping>>

\* __init__ when the root filter query itself raises
ConstructRaises ==
    /\ pc = "new"
    /\ RunMayRaise(root_query)
    /\ pc' = "raised"
    /\ exception' = [type |-> "CommandNotFoundError"]
    /\ UNCHANGED <<environment, call_locals, ifb_device, direction,
                   outgoing_rule, result>>

\* __init__: self.__ifb_device = self.__get_ifb_from_device()
Construct ==
    /\ pc = "new"
    /\ ifb_device' = get_ifb_from_device(root_query)
    /\ pc' = "ready"
    /\ UNCHANGED <<environment, call_locals, direction, outgoing_rule,
                   result, exception>>

\* lines 128-132 for a device that is not null
EnterShapingRule(device, dir) ==
    /\ class_param_list' = tc_output[device].class
    /\ filter_param_list' = tc_output[device].filter
    /\ qdisc_param_list' = tc_output[device].qdisc
    /\ idx' = 0
    /\ key_item_list' = << >>
    /\ filter_key' = ""
    /\ shaping_rule' = EmptyDict
    /\ shaping_rule_mapping' = EmptyDict
    /\ direction' = dir
    /\ pc' = "loop"

\* get_tc_parameter up to the first loop iteration of the OUTGOING call
GetTcParameter ==
    /\ pc = "ready"
    /\ IF RunTcShowFails(root_query)
       THEN /\ pc' = "raised"
            /\ direction' = OUTGOING
            /\ exception' = [type |-> "QueryFault"]
            /\ UNCHANGED call_locals
       ELSE /\ EnterShapingRule(Device, OUTGOING)
            /\ UNCHANGED exception
    /\ UNCHANGED <<environment, ifb_device, outgoing_rule, result>>

\* one iteration of the loop over filter_param_list, lines 134-177
LoopFilter ==
    /\ pc = "loop"
    /\ idx < Len(filter_param_list)
    /\ LET filter_param == filter_param_list[idx + 1]
           key == get_filter_key(filter_param, mangle_table, ip_version)
           joined == JoinParams(filter_param, qdisc_param_list, class_param_list)
       IN  /\ idx' = idx + 1
           /\ key_item_list' = key.items
           /\ filter_key' = Join(key.items)
           /\ IF key.raised # NoException
              THEN /\ pc' = "raised"
                   /\ exception' = key.raised
                   /\ shaping_rule' = EmptyDict
                   /\ UNCHANGED shaping_rule_mapping
              ELSE /\ UNCHANGED <<pc, exception>>
                   /\ IF is_null_string(Join(key.items))
                      THEN /\ shaping_rule' = EmptyDict
                           /\ UNCHANGED shaping_rule_mapping
                      ELSE /\ shaping_rule' = joined
                           /\ shaping_rule_mapping' =
                                 IF joined = EmptyDict
                                 THEN shaping_rule_mapping
                                 ELSE StoreRule(shaping_rule_mapping,
                                                Join(key.items), joined)
    /\ UNCHANGED <<environment, ifb_device, direction, class_param_list,
                   filter_param_list, qdisc_param_list, outgoing_rule, result>>

\* the device a null IFB would be replaced by if line 53 fell back to it
IncomingTargetOrDevice == IF ifb_device = None THEN Device ELSE ifb_device

\* line 53: the argument of the INCOMING call
IncomingTarget == ifb_device

ReturnValue(outgoing, incoming) ==
    Device :> ((OUTGOING :> outgoing) @@ (INCOMING :> incoming))

\* the OUTGOING call returns (line 179) and the INCOMING call starts; a null
\* device returns {} at once (lines 125-126) and get_tc_parameter returns
ReturnOutgoing ==
    /\ pc = "loop"
    /\ direction = OUTGOING
    /\ idx = Len(filter_param_list)
    /\ outgoing_rule' = shaping_rule_mapping
    /\ IF is_null_string(IncomingTarget)
       THEN /\ result' = ReturnValue(shaping_rule_mapping, EmptyDict)
            /\ pc' = "returned"
            /\ direction' = INCOMING
            /\ UNCHANGED call_locals
       ELSE /\ EnterShapingRule(IncomingTarget, INCOMING)
            /\ UNCHANGED result
    /\ UNCHANGED <<environment, ifb_device, exception>>

\* the INCOMING call returns and get_tc_parameter returns its mapping
ReturnIncoming ==
    /\ pc = "loop"
    /\ direction = INCOMING
    /\ idx = Len(filter_param_list)
    /\ result' = ReturnValue(outgoing_rule, shaping_rule_mapping)
    /\ pc' = "returned"
    /\ UNCHANGED <<environment, call_locals, ifb_device, direction,
                   outgoing_rule, exception>>

Next ==
    \/ ConstructRaises
    \/ Construct
    \/ GetTcParameter
    \/ LoopFilter
    \/ ReturnOutgoing
    \/ ReturnIncoming

Spec == Init /\ [][Next]_vars

(***************************************************************************)
(* Vocabulary of the properties.                                           *)
(***************************************************************************)
\* the loop body has run at least once in the call whose locals are held
IterationDone == idx > 0 /\ pc \in {"loop", "returned"}

\* the loop of the call whose locals are held has run to its end
LoopDone == pc \in {"loop", "returned"} /\ idx = Len(filter_param_list)

\* the filter record of the last loop iteration
LastFilter == filter_param_list[idx]

\* the flow id and class id a filter record actually carries
CarriedIds(filter_param) ==
    { filter_param[k] : k \in {FLOW_ID, CLASS_ID} \cap DOMAIN filter_param }

\* records whose join field is present and equal to a carried identifier
JoinedQdiscs(filter_param) ==
    { i \in DOMAIN qdisc_param_list :
        /\ PARENT \in DOMAIN qdisc_param_list[i]
        /\ qdisc_param_list[i][PARENT] \in CarriedIds(filter_param) }

JoinedClasses(filter_param) ==
    { i \in DOMAIN class_param_list :
        /\ CLASS_ID \in DOMAIN class_param_list[i]
        /\ class_param_list[i][CLASS_ID] \in CarriedIds(filter_param) }

\* the discipline parameters of a record: the record without the named fields
Without(record, fields) == [k \in DOMAIN record \ fields |-> record[k]]

QdiscParams(i) == Without(qdisc_param_list[i], {PARENT, HANDLE})

ClassParams(i) == Without(class_param_list[i], {CLASS_ID})

Latest(indexes) == CHOOSE i \in indexes : \A j \in indexes : j <= i

\* the qdisc parameters of all joined qdisc records overlaid by the class
\* parameters of all joined class records
OverlaidParams(filter_param) ==
    LET qs == JoinedQdiscs(filter_param)
        cs == JoinedClasses(filter_param)
        names == UNION ({ DOMAIN QdiscParams(i) : i \in qs }
                        \cup { DOMAIN ClassParams(i) : i \in cs })
        fromClass(p) == { i \in cs : p \in DOMAIN ClassParams(i) }
        fromQdisc(p) == { i \in qs : p \in DOMAIN QdiscParams(i) }
    IN  [ p \in names |->
            IF fromClass(p) # {}
            THEN ClassParams(Latest(fromClass(p)))[p]
            ELSE QdiscParams(Latest(fromQdisc(p)))[p] ]

\* the FilterKey of the i-th filter record of the running call
KeyOf(i) == Join(get_filter_key(filter_param_list[i], mangle_table, ip_version).items)

\* the merged parameters of the i-th filter record of the running call
MergedOf(i) == JoinParams(filter_param_list[i], qdisc_param_list, class_param_list)

\* i and j resolve to one non-empty key and j is the last record that does
SameKeyPair(i, j) ==
    /\ i < j
    /\ KeyOf(i) = KeyOf(j)
    /\ KeyOf(j) # ""
    /\ \A n \in DOMAIN filter_param_list : n > j => KeyOf(n) # KeyOf(j)

(***************************************************************************)
(* C1: the parameter map of an entry a filter record produces equals the   *)
(* parameters of all qdisc records whose parent equals the filter's        *)
(* flow/class identifier, overlaid by the parameters of all class records  *)
(* whose classId equals it.                                                *)
(***************************************************************************)
C1_EntryIsQdiscOverlaidByClass ==
    (IterationDone /\ shaping_rule # EmptyDict) =>
        /\ filter_key \in DOMAIN shaping_rule_mapping
        /\ shaping_rule_mapping[filter_key] = OverlaidParams(LastFilter)

(***************************************************************************)
(* C2: a filter record whose handle no mangle rule matches makes the       *)
(* reconstruction fail with the unmatched-mark error naming that filter    *)
(* record, for every mangle table, the empty one included.                 *)
(***************************************************************************)
UnmatchedHandle ==
    /\ idx > 0
    /\ pc \in {"loop", "returned", "raised"}
    /\ HANDLE \in DOMAIN LastFilter
    /\ MatchingMarks(mangle_table, IntOf(LastFilter[HANDLE])) = {}

C2_UnmatchedMarkErrorNamesFilter ==
    UnmatchedHandle =>
        /\ pc = "raised"
        /\ exception.type = "ValueError"
        /\ exception.subject = LastFilter

(***************************************************************************)
(* C3: a filter record whose classification fields are each absent or the  *)
(* "any" value of the active IP version yields an empty FilterKey and no   *)
(* entry; the empty string is never a key of a rule map.                   *)
(***************************************************************************)
AnyOrAbsent(filter_param, version) ==
    /\ \A k \in {SRC_NETWORK, DST_NETWORK} \cap DOMAIN filter_param :
          is_anywhere_network(filter_param[k], version)
    /\ {SRC_PORT, DST_PORT, PROTOCOL} \cap DOMAIN filter_param = {}

C3_AnyOrAbsentFilterHasEmptyKey ==
    /\ "" \notin DOMAIN shaping_rule_mapping
    /\ "" \notin DOMAIN outgoing_rule
    /\ (IterationDone /\ HANDLE \notin DOMAIN LastFilter
            /\ AnyOrAbsent(LastFilter, ip_version)) =>
          (filter_key = "" /\ shaping_rule = EmptyDict)

(***************************************************************************)
(* C4: the FilterKey lists its fields in the order source network,         *)
(* destination network, source port, destination port, protocol, whether   *)
(* they come from the record or from the mangle rule matched by handle.    *)
(***************************************************************************)
FieldOrder == << SRC_NETWORK, DST_NETWORK, SRC_PORT, DST_PORT, PROTOCOL >>

FieldRank(name) == CHOOSE r \in DOMAIN FieldOrder : FieldOrder[r] = name

C4_KeyFieldsInFixedOrder ==
    \A i, j \in DOMAIN key_item_list :
        i < j => FieldRank(key_item_list[i].name) < FieldRank(key_item_list[j].name)

(***************************************************************************)
(* C5 as stated: when two filter records resolve to the identical          *)
(* FilterKey the map has one entry for that key, holding the merged        *)
(* parameters of the later-processed record.                               *)
(***************************************************************************)
C5_LaterRecordAlwaysWins ==
    LoopDone =>
        \A i, j \in DOMAIN filter_param_list :
            (SameKeyPair(i, j) /\ filter_param_list[i] # filter_param_list[j]) =>
                /\ KeyOf(j) \in DOMAIN shaping_rule_mapping
                /\ shaping_rule_mapping[KeyOf(j)] = MergedOf(j)

(***************************************************************************)
(* C5 amended: when two filter records resolve to the identical FilterKey  *)
(* and the later-processed record's merged parameters are not empty, the   *)
(* map has one entry for that key, holding the later record's merged       *)
(* parameters.                                                             *)
(***************************************************************************)
C5_LaterRecordWinsWhenNotEmpty ==
    LoopDone =>
        \A i, j \in DOMAIN filter_param_list :
            (SameKeyPair(i, j) /\ MergedOf(j) # EmptyDict) =>
                /\ KeyOf(j) \in DOMAIN shaping_rule_mapping
                /\ shaping_rule_mapping[KeyOf(j)] = MergedOf(j)

C5_Witness ==
    /\ LoopDone
    /\ \E i, j \in DOMAIN filter_param_list :
          /\ SameKeyPair(i, j)
          /\ filter_param_list[i] # filter_param_list[j]
          /\ MergedOf(i) # EmptyDict
          /\ MergedOf(j) # EmptyDict
          /\ MergedOf(i) # MergedOf(j)
          /\ shaping_rule_mapping[KeyOf(j)] = MergedOf(j)

(***************************************************************************)
(* C6: a root filter query that failed is surfaced by the construction as  *)
(* a hard error: a constructed parser without an IFB device is always the  *)
(* outcome of a query that succeeded and found no redirect.                *)
(***************************************************************************)
C6_FailedRootQueryIsHardError ==
    (pc = "ready" /\ ifb_device = None) => root_query.kind = "ok"

(***************************************************************************)
(* C7: when no ingress redirect was found, get_tc_parameter returns a      *)
(* mapping whose INCOMING key is present with the empty mapping as value,  *)
(* no error comes from the incoming direction, and the OUTGOING value is   *)
(* what the device's own records give, as it is with an IFB configured.    *)
(***************************************************************************)
\* the rule map of the first n filter records of a device, none raising
RECURSIVE RuleMapOf(_, _)
RuleMapOf(records, n) ==
    IF n = 0 THEN EmptyDict
    ELSE LET before == RuleMapOf(records, n - 1)
             key == Join(get_filter_key(records.filter[n], mangle_table, ip_version).items)
             rule == JoinParams(records.filter[n], records.qdisc, records.class)
         IN  IF key = "" \/ rule = EmptyDict THEN before
             ELSE (key :> rule) @@ before

DeviceRuleMap == RuleMapOf(tc_output[Device], Len(tc_output[Device].filter))

C7_NoIfbGivesEmptyIncoming ==
    /\ (pc = "returned" /\ ifb_device = None) =>
          /\ DOMAIN result = {Device}
          /\ INCOMING \in DOMAIN result[Device]
          /\ result[Device][INCOMING] = EmptyDict
    /\ pc = "returned" => result[Device][OUTGOING] = DeviceRuleMap
    /\ (pc = "raised" /\ direction = INCOMING) => ifb_device # None

C7_Witness ==
    /\ pc = "returned"
    /\ ifb_device = None
    /\ result[Device][INCOMING] = EmptyDict
    /\ result[Device][OUTGOING] # EmptyDict

(***************************************************************************)
(* C8: when several mangle rules share the mark id of a filter record's    *)
(* handle, the FilterKey is built from the first such rule in table order  *)
(* and from that rule only.                                                *)
(***************************************************************************)
\* the rules of the table whose mark id is the last filter record's handle
SharedMark ==
    { i \in DOMAIN mangle_table : ToString(mangle_table[i].mark_id) = LastFilter[HANDLE] }

EarliestShared == CHOOSE i \in SharedMark : \A j \in SharedMark : i <= j

FieldsOfRule(rule) ==
    { Item(DST_NETWORK, rule.destination), Item(PROTOCOL, rule.protocol) }
    \cup (IF rule.source \in {None, ""} THEN {} ELSE { Item(SRC_NETWORK, rule.source) })

C8_FirstMangleRuleInTableOrder ==
    (IterationDone /\ HANDLE \in DOMAIN LastFilter /\ SharedMark # {}) =>
        /\ { key_item_list[n] : n \in DOMAIN key_item_list }
              = FieldsOfRule(mangle_table[EarliestShared])
        /\ Len(key_item_list) = Cardinality(FieldsOfRule(mangle_table[EarliestShared]))

C8_Witness ==
    /\ IterationDone
    /\ HANDLE \in DOMAIN LastFilter
    /\ Cardinality(SharedMark) >= 2
    /\ \E j \in SharedMark :
          FieldsOfRule(mangle_table[j]) # FieldsOfRule(mangle_table[EarliestShared])
    /\ filter_key # ""

(***************************************************************************)
(* C9: no parameter map in the output of get_tc_parameter contains one of  *)
(* the join-only fields parent, handle or classId.                         *)
(***************************************************************************)
C9_NoJoinOnlyFieldInOutput ==
    pc = "returned" =>
        \A d \in {OUTGOING, INCOMING} :
            \A k \in DOMAIN result[Device][d] :
                DOMAIN result[Device][d][k] \cap {PARENT, HANDLE, CLASS_ID} = {}

(***************************************************************************)
(* C10: a qdisc record contributes to a filter only when its parent is     *)
(* present and equal to a flow id or class id the filter carries, a class  *)
(* record only when its classId is; a filter that carries neither          *)
(* identifier receives nothing.                                            *)
(***************************************************************************)
C10_OnlyCarriedIdentifiersJoin ==
    IterationDone =>
        \A p \in DOMAIN shaping_rule :
            \/ \E i \in JoinedQdiscs(LastFilter) :
                  p \in DOMAIN QdiscParams(i) /\ QdiscParams(i)[p] = shaping_rule[p]
            \/ \E i \in JoinedClasses(LastFilter) :
                  p \in DOMAIN class_param_list[i] /\ class_param_list[i][p] = shaping_rule[p]
====
